---------------------------- MODULE Spec2Model ----------------------------
(***************************************************************************)
(* csalt: a wrapper that translates device/group names into salt minion    *)
(* ids and forwards commands to salt.                                      *)
(*                                                                         *)
(* The repository holds two builds of the program:                         *)
(*   "cmd"  : src/cmd/csalt/main.go   (--live, plain show listing)         *)
(*   "part" : src/unnamed/part_000    (--prod, --no-prefix, show listing   *)
(*            that asks salt for its node groups)                          *)
(* A Go string is modelled as a sequence of one-character strings.         *)
(***************************************************************************)
EXTENDS Integers, Sequences, FiniteSets, TLC

(***************************************************************************)
(* Bounds of the model                                                     *)
(***************************************************************************)
MaxCommands == 2
MaxNodeGroups == 1

(***************************************************************************)
(* Program constants                                                       *)
(***************************************************************************)
maxPasswordAttempts == 3
testPrefix == <<"t", "e", "s", "t">>

Builds == {"cmd", "part"}

(***************************************************************************)
(* Strings                                                                 *)
(***************************************************************************)
Digits == <<"0", "1", "2", "3", "4", "5", "6", "7", "8", "9">>

RECURSIVE Itoa(_)
Itoa(n) ==
    IF n < 0 THEN <<"-">> \o Itoa(-n)
    ELSE IF n < 10 THEN <<Digits[n + 1]>>
    ELSE Itoa(n \div 10) \o <<Digits[(n % 10) + 1]>>

\* strings.Index(s, c): 0-based position of the first c in s, -1 if none
RECURSIVE Index(_, _)
Index(s, c) ==
    IF s = <<>> THEN -1
    ELSE IF Head(s) = c THEN 0
    ELSE LET r == Index(Tail(s), c) IN IF r < 0 THEN -1 ELSE r + 1

IsSpace(c) == c = " "

RECURSIVE TrimLeft(_)
TrimLeft(s) ==
    IF s # <<>> /\ IsSpace(Head(s)) THEN TrimLeft(Tail(s)) ELSE s

RECURSIVE TrimRight(_)
TrimRight(s) ==
    IF s # <<>> /\ IsSpace(s[Len(s)]) THEN TrimRight(SubSeq(s, 1, Len(s) - 1)) ELSE s

TrimSpace(s) == TrimRight(TrimLeft(s))

\* strings.Split(s, ","): always at least one term
RECURSIVE Split(_, _)
Split(s, sep) ==
    LET pos == Index(s, sep)
    IN  IF pos < 0 THEN <<s>>
        ELSE <<SubSeq(s, 1, pos)>> \o Split(SubSeq(s, pos + 2, Len(s)), sep)

\* strings.Join(elems, sep)
RECURSIVE Join(_, _)
Join(elems, sep) ==
    IF elems = <<>> THEN <<>>
    ELSE IF Len(elems) = 1 THEN elems[1]
    ELSE elems[1] \o sep \o Join(Tail(elems), sep)

(***************************************************************************)
(* DeviceQuery                                                             *)
(***************************************************************************)
Device(group, name, id) == [GroupName |-> group, DeviceName |-> name, SaltId |-> id]

\* the zero value of DeviceQuery: the positional argument was not given
EmptyQuery == [devices |-> <<>>, groups |-> <<>>, rawArg |-> <<>>]

\* mutant: the query counts as given when it parsed to something
RawQueryFromTerms(devQ) == Len(devQ.devices) > 0 \/ Len(devQ.groups) > 0

RawQuery(devQ) == Len(devQ.rawArg) > 0

\* mutant: only group references count as structure
HasValuesGroupsOnly(devQ) == Len(devQ.groups) > 0

HasValues(devQ) == Len(devQ.devices) > 0 \/ Len(devQ.groups) > 0

\* mutant: a term is split at its last colon
UnmarshalTermLastColon(devQ, devInfo) ==
    LET colons == {i \in 1..Len(devInfo) : devInfo[i] = ":"}
        pos == IF colons = {} THEN -1
               ELSE (CHOOSE i \in colons : \A j \in colons : j <= i) - 1
    IN  IF pos = 0
        THEN [devQ EXCEPT !.devices =
                 Append(@, Device(<<>>, SubSeq(devInfo, 2, Len(devInfo)), 0))]
        ELSE IF pos >= 0
        THEN IF Len(devInfo) = pos + 1
             THEN [devQ EXCEPT !.groups = Append(@, SubSeq(devInfo, 1, pos))]
             ELSE [devQ EXCEPT !.devices =
                      Append(@, Device(SubSeq(devInfo, 1, pos),
                                       SubSeq(devInfo, pos + 2, Len(devInfo)), 0))]
        ELSE [devQ EXCEPT !.devices = Append(@, Device(<<>>, devInfo, 0))]

\* one iteration of the loop of UnmarshalText
UnmarshalTerm(devQ, devInfo) ==
    LET pos == Index(devInfo, ":")
    IN  IF pos = 0
        THEN [devQ EXCEPT !.devices =
                 Append(@, Device(<<>>, SubSeq(devInfo, 2, Len(devInfo)), 0))]
        ELSE IF pos >= 0
        THEN IF Len(devInfo) = pos + 1
             THEN [devQ EXCEPT !.groups = Append(@, SubSeq(devInfo, 1, pos))]
             ELSE [devQ EXCEPT !.devices =
                      Append(@, Device(SubSeq(devInfo, 1, pos),
                                       SubSeq(devInfo, pos + 2, Len(devInfo)), 0))]
        ELSE [devQ EXCEPT !.devices = Append(@, Device(<<>>, devInfo, 0))]

RECURSIVE UnmarshalTerms(_, _)
UnmarshalTerms(devQ, terms) ==
    IF terms = <<>> THEN devQ
    ELSE UnmarshalTerms(UnmarshalTerm(devQ, Head(terms)), Tail(terms))

UnmarshalText(b) ==
    UnmarshalTerms([EmptyQuery EXCEPT !.rawArg = b], Split(TrimSpace(b), ","))

(***************************************************************************)
(* Identifier formatting                                                   *)
(***************************************************************************)
\* mutant: the test server implies the test prefix
getSaltPrefixByServer(serverURL, saltPrefix) ==
    IF serverURL = "https://api-test.cacophony.org.nz"
    THEN <<"p", "i">> \o <<"-">> \o testPrefix
    ELSE IF saltPrefix # <<>> THEN <<"p", "i">> \o <<"-">> \o saltPrefix ELSE <<"p", "i">>

getSaltPrefix(serverURL, saltPrefix) ==
    IF saltPrefix # <<>> THEN <<"p", "i">> \o <<"-">> \o saltPrefix ELSE <<"p", "i">>

\* src/unnamed/part_000: one identifier per device
saltDeviceCommand(serverURL, devices, saltPrefix) ==
    LET idPrefix == getSaltPrefix(serverURL, saltPrefix)
    IN  [i \in 1..Len(devices) |-> idPrefix \o <<"-">> \o Itoa(devices[i].SaltId)]

\* src/cmd/csalt/main.go: the identifiers written to one buffer, space separated
RECURSIVE saltDevicesBuffer(_, _, _)
saltDevicesBuffer(idPrefix, devices, spacer) ==
    IF devices = <<>> THEN <<>>
    ELSE spacer \o idPrefix \o <<"-">> \o Itoa(Head(devices).SaltId)
         \o saltDevicesBuffer(idPrefix, Tail(devices), <<" ">>)

saltDeviceCommandCmd(serverURL, devices, saltPrefix) ==
    saltDevicesBuffer(getSaltPrefix(serverURL, saltPrefix), devices, <<>>)

(***************************************************************************)
(* Running salt                                                            *)
(***************************************************************************)
salt == <<"s", "a", "l", "t">>
multiTargetFlag == <<"-", "L">>

\* mutant: the tool name is not put in front of the arguments
runSaltNoToolName(commands) == commands

\* runSalt: the arguments handed to exec.Command("sudo", ...)
runSalt(commands) == <<salt>> \o commands

\* mutant: -L is passed for a single device too
runSaltForDevicesAlwaysList(build, serverURL, devices, argCommands, saltPrefix) ==
    IF Len(devices) = 0
    THEN [err |-> "No valid devices found", argv |-> <<>>]
    ELSE LET ids == Join(saltDeviceCommand(serverURL, devices, saltPrefix), <<" ">>)
         IN  [err |-> "", argv |-> <<salt, multiTargetFlag, ids>> \o argCommands]

\* mutant: salt is run even when no device resolved
runSaltForDevicesUnchecked(build, serverURL, devices, argCommands, saltPrefix) ==
    LET ids == IF build = "cmd"
               THEN saltDeviceCommandCmd(serverURL, devices, saltPrefix)
               ELSE Join(saltDeviceCommand(serverURL, devices, saltPrefix), <<" ">>)
        commands == (IF Len(devices) > 1 THEN <<multiTargetFlag>> ELSE <<>>)
                    \o <<ids>> \o argCommands
    IN  [err |-> "", argv |-> runSalt(commands)]

\* runSaltForDevices: the error, or the arguments handed to sudo
runSaltForDevices(build, serverURL, devices, argCommands, saltPrefix) ==
    IF Len(devices) = 0
    THEN [err |-> "No valid devices found", argv |-> <<>>]
    ELSE LET ids == IF build = "cmd"
                    THEN saltDeviceCommandCmd(serverURL, devices, saltPrefix)
                    ELSE Join(saltDeviceCommand(serverURL, devices, saltPrefix), <<" ">>)
             commands == (IF Len(devices) > 1 THEN <<multiTargetFlag>> ELSE <<>>)
                         \o <<ids>> \o argCommands
         IN  [err |-> "", argv |-> runSalt(commands)]

(***************************************************************************)
(* checkForDuplicates                                                      *)
(***************************************************************************)
RECURSIVE duplicatesLoop(_, _, _)
duplicatesLoop(nameMatches, nameMap, duplicateNames) ==
    IF nameMatches = <<>>
    THEN [nameMap |-> nameMap, duplicateNames |-> duplicateNames]
    ELSE LET device == Head(nameMatches)
             name == device.DeviceName
         IN  IF name \notin DOMAIN nameMap
             THEN duplicatesLoop(Tail(nameMatches),
                                 nameMap @@ (name :> <<device>>), duplicateNames)
             ELSE duplicatesLoop(Tail(nameMatches),
                                 [nameMap EXCEPT ![name] = Append(@, device)],
                                 Append(duplicateNames, name))

\* mutant: a name is ambiguous only from its third match on
checkForDuplicatesLenient(devices) ==
    LET r == duplicatesLoop(devices.NameMatches, <<>>, <<>>)
    IN  [err |-> Len(r.duplicateNames) > 1,
         count |-> Len(r.duplicateNames),
         report |-> <<>>]

\* mutant: every resolved device is checked, group matches included
checkForDuplicatesAll(devices) ==
    LET r == duplicatesLoop(devices.Devices \o devices.NameMatches, <<>>, <<>>)
    IN  [err |-> Len(r.duplicateNames) > 0,
         count |-> Len(r.duplicateNames),
         report |-> [i \in 1..Len(r.duplicateNames) |->
                        [name |-> r.duplicateNames[i],
                         matches |-> r.nameMap[r.duplicateNames[i]]]]]

\* count: the number the error message carries (0: no error);
\* report: the printed blocks, one per entry of duplicateNames
checkForDuplicates(devices) ==
    LET r == duplicatesLoop(devices.NameMatches, <<>>, <<>>)
    IN  [err |-> Len(r.duplicateNames) > 0,
         count |-> Len(r.duplicateNames),
         report |-> [i \in 1..Len(r.duplicateNames) |->
                        [name |-> r.duplicateNames[i],
                         matches |-> r.nameMap[r.duplicateNames[i]]]]]


(***************************************************************************)
(* Session resolution                                                      *)
(***************************************************************************)
ProdAPIHost == "https://api.cacophony.org.nz"
TestAPIHost == "https://api-test.cacophony.org.nz"

\* the server aliases of cacophony-user.yaml (the configuration of the README)
ConfigServers ==
    ("local" :> [Url |-> "http://127.0.0.1:1080/", SaltPrefix |-> testPrefix]) @@
    ("alpha" :> [Url |-> "http://192.168.1.102:1080/", SaltPrefix |-> <<"a", "l", "p", "h", "a">>])

\* config.ServerURL: not saved, or the saved default
ConfigServerURLs == {"", "https://api-beta.cacophony.org.nz/"}

\* what api.ServerURL() may be: a built-in host or a configured one
ServerURLs == {ProdAPIHost, "http://127.0.0.1:1080/"}

\* --prod is --live in the "cmd" build, which has no --no-prefix
SessionFlags(build) ==
    [ProdServer : BOOLEAN, TestServer : BOOLEAN, Server : {"", "local", "alpha", "nosuch"},
     TestPrefix : BOOLEAN, NoPrefix : IF build = "part" THEN BOOLEAN ELSE {FALSE}]

\* mutant: --no-prefix is applied before -t, so that -t wins over it
apiFromArgsSuppressFirst(flags, configServerURL) ==
    LET env ==
          IF flags.ProdServer
          THEN [err |-> "", serverURL |-> ProdAPIHost, saltPrefix |-> <<>>]
          ELSE IF flags.TestServer
          THEN [err |-> "", serverURL |-> TestAPIHost, saltPrefix |-> testPrefix]
          ELSE IF flags.Server # ""
          THEN IF flags.Server \in DOMAIN ConfigServers
               THEN [err |-> "", serverURL |-> ConfigServers[flags.Server].Url,
                     saltPrefix |-> ConfigServers[flags.Server].SaltPrefix]
               ELSE [err |-> "Cannot find server info in config",
                     serverURL |-> configServerURL, saltPrefix |-> <<>>]
          ELSE IF configServerURL = ""
          THEN [err |-> "", serverURL |-> ProdAPIHost, saltPrefix |-> <<>>]
          ELSE [err |-> "", serverURL |-> configServerURL, saltPrefix |-> <<>>]
        suppressed == IF flags.NoPrefix THEN [env EXCEPT !.saltPrefix = <<>>] ELSE env
    IN  IF env.err # "" THEN env
        ELSE IF flags.TestPrefix THEN [suppressed EXCEPT !.saltPrefix = testPrefix]
        ELSE suppressed

\* apiFromArgs: the server and the salt prefix (the user name decides neither)
apiFromArgs(flags, configServerURL) ==
    LET env ==
          IF flags.ProdServer
          THEN [err |-> "", serverURL |-> ProdAPIHost, saltPrefix |-> <<>>]
          ELSE IF flags.TestServer
          THEN [err |-> "", serverURL |-> TestAPIHost, saltPrefix |-> testPrefix]
          ELSE IF flags.Server # ""
          THEN IF flags.Server \in DOMAIN ConfigServers
               THEN [err |-> "", serverURL |-> ConfigServers[flags.Server].Url,
                     saltPrefix |-> ConfigServers[flags.Server].SaltPrefix]
               ELSE [err |-> "Cannot find server info in config",
                     serverURL |-> configServerURL, saltPrefix |-> <<>>]
          ELSE IF configServerURL = ""
          THEN [err |-> "", serverURL |-> ProdAPIHost, saltPrefix |-> <<>>]
          ELSE [err |-> "", serverURL |-> configServerURL, saltPrefix |-> <<>>]
        withTest == IF flags.TestPrefix THEN [env EXCEPT !.saltPrefix = testPrefix] ELSE env
    IN  IF env.err # "" THEN env
        ELSE IF flags.NoPrefix THEN [withTest EXCEPT !.saltPrefix = <<>>] ELSE withTest

(***************************************************************************)
(* The environment: command line, directory service, node groups           *)
(***************************************************************************)
CommandToken(i) == <<"c">> \o Itoa(i)

\* the command lines: the first n tokens of c1 c2 ...
CommandLists == {[i \in 1..n |-> CommandToken(i)] : n \in 0..MaxCommands}

\* the DEVICEINFO texts of the runs: empty, a bare name, ":name", "group:",
\* a list of a name and a group, a name after a blank
Queries ==
    { <<>>, <<"a">>, <<":", "a">>, <<"a", ":">>, <<"a", ",", "a", ":">>, <<" ", "a">> }

\* what go-arg hands to runMain: no positional at all, or DEVICEINFO
\* (parsed by UnmarshalText) followed by the commands.  The flags that one
\* step alone reads (-v, --test, --server, ...) are drawn where they are read.
ArgsSet ==
    {[DeviceInfo |-> EmptyQuery, Commands |-> <<>>, Show |-> s] : s \in BOOLEAN}
    \cup
    {[DeviceInfo |-> UnmarshalText(q), Commands |-> c, Show |-> s] :
        q \in Queries, c \in CommandLists, s \in BOOLEAN}

\* the devices the directory service knows
Directory ==
    << Device(<<"g">>, <<"a">>, 3), Device(<<"h">>, <<"a">>, 42),
       Device(<<"g">>, <<"b">>, 12) >>

Pick(S) == SelectSeq(Directory, LAMBDA d : d \in S)

DirectorySet == {Directory[i] : i \in 1..Len(Directory)}

\* what TranslateNames may resolve: every device of the directory is a
\* group match, a name match or no match
Responses ==
    {[Devices |-> Pick(D), NameMatches |-> Pick(N)] :
        <<D, N>> \in {p \in (SUBSET DirectorySet) \X (SUBSET DirectorySet) :
                         p[1] \cap p[2] = {}}}

NoResponse == [Devices |-> <<>>, NameMatches |-> <<>>]

NodeGroupNames == {<<"n">> \o Itoa(i) : i \in 1..MaxNodeGroups}

\* the node groups of nodegroups.conf in the order the map is ranged over
RECURSIVE Orders(_)
Orders(S) ==
    IF S = {} THEN {<<>>}
    ELSE UNION {{<<x>> \o o : o \in Orders(S \ {x})} : x \in S}

NodeGroupOrders == UNION {Orders(S) : S \in SUBSET NodeGroupNames}

\* getSaltOutput("--preview-target", "-N", key): the arguments handed to sudo
previewTarget(key) ==
    <<salt, <<"-", "-", "p", "r", "e", "v", "i", "e", "w", "-", "t", "a", "r", "g", "e", "t">>,
      <<"-", "N">>, key>>

(***************************************************************************)
(* State                                                                   *)
(***************************************************************************)
VARIABLES
    build,      \* which of the two builds runs
    args,       \* Args, as parsed by procArgs
    pc,         \* where runMain is
    err,        \* the error runMain returned ("" is nil), once pc = "done"
    api,        \* the CacophonyUserAPI: has a token, is authenticated
    saltPrefix, \* the prefix apiFromArgs resolved
    attempts,   \* requestAuthentication's counter
    devResp,    \* the DeviceResponse of the last successful TranslateNames
    dup,        \* what checkForDuplicates returned and printed
    calls,      \* the calls made to the user api and the terminal, with results
    saltCalls,  \* the sudo invocations in order: the function that made each
                \* (by) and the arguments it handed to sudo (argv)
    shown       \* the identifiers formatted for the show listing

vars == <<build, args, pc, err, api, saltPrefix, attempts, devResp, dup, calls,
          saltCalls, shown>>

NoApi == [token |-> FALSE, authenticated |-> FALSE]
NoDup == [err |-> FALSE, count |-> 0, report |-> <<>>]

Init ==
    /\ build \in Builds
    /\ args \in ArgsSet
    /\ pc = "main"
    /\ err = ""
    /\ api = NoApi
    /\ saltPrefix = <<>>
    /\ attempts = 0
    /\ devResp = NoResponse
    /\ dup = NoDup
    /\ calls = <<>>
    /\ saltCalls = <<>>
    /\ shown = {}

\* return e from runMain
Return(e) == pc' = "done" /\ err' = e

\* authenticateUser up to its first call: the password prompt unless the api
\* is authenticated already, then SaveTemporaryToken
EnterAuthenticateUser(authenticated, log) ==
    /\ attempts' = 0
    /\ IF authenticated
       THEN pc' = "savetoken" /\ calls' = log
       ELSE pc' = "password" /\ calls' = Append(log, <<"requestAuthentication", "">>)

(***************************************************************************)
(* runMain, up to apiFromArgs                                              *)
(***************************************************************************)
PassThrough(commands) ==
    \E exit \in {"", "exit status"} :
        /\ saltCalls' = Append(saltCalls, [by |-> "runMain", argv |-> runSalt(commands)])
        /\ Return(exit)

Main ==
    /\ pc = "main"
    /\ IF Len(args.Commands) = 0
       THEN IF RawQuery(args.DeviceInfo)
            THEN IF ~args.Show
                 THEN PassThrough(<<args.DeviceInfo.rawArg>>)
                 ELSE pc' = "api" /\ UNCHANGED <<err, saltCalls>>
            ELSE Return("Commands/deviceinfo must be specified") /\ UNCHANGED saltCalls
       ELSE IF ~HasValues(args.DeviceInfo)
            THEN PassThrough(args.Commands)
            ELSE pc' = "api" /\ UNCHANGED <<err, saltCalls>>
    /\ UNCHANGED <<build, args, api, saltPrefix, attempts, devResp, dup, calls, shown>>

\* apiFromArgs, then authenticateUser when the api holds no token
ApiFromArgs ==
    /\ pc = "api"
    /\ \E flags \in SessionFlags(build), configServerURL \in ConfigServerURLs,
          token \in BOOLEAN :
          LET r == apiFromArgs(flags, configServerURL)
          IN  IF r.err # ""
              THEN /\ Return(r.err)
                   /\ UNCHANGED <<api, saltPrefix, attempts, calls>>
              ELSE \E authenticated \in (IF token THEN BOOLEAN ELSE {FALSE}) :
                   /\ api' = [token |-> token, authenticated |-> authenticated]
                   /\ saltPrefix' = r.saltPrefix
                   /\ err' = err
                   /\ IF ~token
                      THEN EnterAuthenticateUser(authenticated, calls)
                      ELSE pc' = "translate" /\ UNCHANGED <<attempts, calls>>
    /\ UNCHANGED <<build, args, devResp, dup, saltCalls, shown>>

(***************************************************************************)
(* authenticateUser                                                        *)
(***************************************************************************)
\* mutant: the attempts are compared with the limit before they are counted
PasswordOffByOne ==
    /\ pc = "password"
    /\ ~api.authenticated
    /\ \/ /\ calls' = Append(calls, <<"GetPasswd", "error">>)
          /\ Return("GetPasswd error")
          /\ UNCHANGED <<api, attempts>>
       \/ /\ calls' = Append(calls, <<"Authenticate", "ok">>)
          /\ api' = [api EXCEPT !.token = TRUE, !.authenticated = TRUE]
          /\ pc' = "savetoken"
          /\ UNCHANGED <<err, attempts>>
       \/ /\ calls' = Append(calls, <<"Authenticate", "error">>)
          /\ Return("api error")
          /\ UNCHANGED <<api, attempts>>
       \/ /\ calls' = Append(calls, <<"Authenticate", "authentication error">>)
          /\ attempts' = attempts + 1
          /\ IF attempts = maxPasswordAttempts
             THEN Return("Max Password Attempts")
             ELSE UNCHANGED <<pc, err>>
          /\ UNCHANGED api
    /\ UNCHANGED <<build, args, saltPrefix, devResp, dup, saltCalls, shown>>

\* one turn of requestAuthentication's loop: read a password, submit it
Password ==
    /\ pc = "password"
    /\ ~api.authenticated
    /\ \/ /\ calls' = Append(calls, <<"GetPasswd", "error">>)
          /\ Return("GetPasswd error")
          /\ UNCHANGED <<api, attempts>>
       \/ /\ calls' = Append(calls, <<"Authenticate", "ok">>)
          /\ api' = [api EXCEPT !.token = TRUE, !.authenticated = TRUE]
          /\ pc' = "savetoken"
          /\ UNCHANGED <<err, attempts>>
       \/ /\ calls' = Append(calls, <<"Authenticate", "error">>)
          /\ Return("api error")
          /\ UNCHANGED <<api, attempts>>
       \/ /\ calls' = Append(calls, <<"Authenticate", "authentication error">>)
          /\ attempts' = attempts + 1
          /\ IF attempts + 1 = maxPasswordAttempts
             THEN Return("Max Password Attempts")
             ELSE UNCHANGED <<pc, err>>
          /\ UNCHANGED api
    /\ UNCHANGED <<build, args, saltPrefix, devResp, dup, saltCalls, shown>>

\* the end of authenticateUser; runMain then calls TranslateNames
SaveTemporaryToken ==
    /\ pc = "savetoken"
    /\ \/ /\ calls' = Append(calls, <<"SaveTemporaryToken", "ok">>)
          /\ pc' = "translate"
          /\ UNCHANGED err
       \/ /\ calls' = Append(calls, <<"SaveTemporaryToken", "error">>)
          /\ Return("SaveTemporaryToken error")
    /\ UNCHANGED <<build, args, api, saltPrefix, attempts, devResp, dup, saltCalls, shown>>

(***************************************************************************)
(* Translation                                                             *)
(***************************************************************************)
Translations == {i \in 1..Len(calls) : calls[i][1] = "TranslateNames"}

\* mutant: the first call is retried after any error
TranslateNamesRetryAnyError ==
    /\ pc = "translate"
    /\ \/ \E resp \in Responses :
             /\ calls' = Append(calls, <<"TranslateNames", "ok">>)
             /\ devResp' = resp
             /\ pc' = "resolved"
             /\ UNCHANGED <<err, attempts>>
       \/ \E failure \in {"authentication error", "error"} :
             /\ IF Translations = {}
                THEN /\ EnterAuthenticateUser(api.authenticated,
                           Append(calls, <<"TranslateNames", failure>>))
                     /\ UNCHANGED err
                ELSE /\ calls' = Append(calls, <<"TranslateNames", failure>>)
                     /\ Return(failure)
                     /\ UNCHANGED attempts
             /\ UNCHANGED devResp
    /\ UNCHANGED <<build, args, api, saltPrefix, dup, saltCalls, shown>>

\* mutant: the error of the second call is dropped
TranslateNamesSecondErrorDropped ==
    /\ pc = "translate"
    /\ \/ \E resp \in Responses :
             /\ calls' = Append(calls, <<"TranslateNames", "ok">>)
             /\ devResp' = resp
             /\ pc' = "resolved"
             /\ UNCHANGED <<err, attempts>>
       \/ /\ IF Translations = {}
             THEN /\ EnterAuthenticateUser(api.authenticated,
                        Append(calls, <<"TranslateNames", "authentication error">>))
                  /\ UNCHANGED err
             ELSE /\ calls' = Append(calls, <<"TranslateNames", "authentication error">>)
                  /\ pc' = "resolved"
                  /\ UNCHANGED <<err, attempts>>
          /\ UNCHANGED devResp
       \/ /\ calls' = Append(calls, <<"TranslateNames", "error">>)
          /\ Return("api error")
          /\ UNCHANGED <<devResp, attempts>>
    /\ UNCHANGED <<build, args, api, saltPrefix, dup, saltCalls, shown>>

\* api.TranslateNames, the first call or the one after authenticateUser
TranslateNames ==
    /\ pc = "translate"
    /\ \/ \E resp \in Responses :
             /\ calls' = Append(calls, <<"TranslateNames", "ok">>)
             /\ devResp' = resp
             /\ pc' = "resolved"
             /\ UNCHANGED <<err, attempts>>
       \/ /\ IF Translations = {}
             THEN /\ EnterAuthenticateUser(api.authenticated,
                        Append(calls, <<"TranslateNames", "authentication error">>))
                  /\ UNCHANGED err
             ELSE /\ calls' = Append(calls, <<"TranslateNames", "authentication error">>)
                  /\ Return("authentication error")
                  /\ UNCHANGED attempts
          /\ UNCHANGED devResp
       \/ /\ calls' = Append(calls, <<"TranslateNames", "error">>)
          /\ Return("api error")
          /\ UNCHANGED <<devResp, attempts>>
    /\ UNCHANGED <<build, args, api, saltPrefix, dup, saltCalls, shown>>


(***************************************************************************)
(* runMain after a successful translation                                  *)
(***************************************************************************)
\* showTranslatedDevices of the "part" build: readNodeFile asks salt for the
\* targets of every node group (panicAt = 0), or panics slicing the output
\* of call panicAt, which held no minion id; then the listing is printed
readNodeFile(order, panicAt) ==
    [i \in 1..(IF panicAt = 0 THEN Len(order) ELSE panicAt) |->
        [by |-> "getSaltOutput", argv |-> previewTarget(order[i])]]

showTranslatedDevices(devices, idPrefix) ==
    {idPrefix \o <<"-">> \o Itoa(d.SaltId) :
        d \in {devices.NameMatches[i] : i \in 1..Len(devices.NameMatches)}
              \cup {devices.Devices[i] : i \in 1..Len(devices.Devices)}}

\* the show listing of the "cmd" build: one line of identifiers
showSaltNames(serverURL, allDevices, prefix) ==
    {saltDeviceCommandCmd(serverURL, allDevices, prefix)}

\* the last step of runMain: runSaltForDevices when commands were given
Dispatch(serverURL, previews) ==
    IF Len(args.Commands) > 0
    THEN LET r == runSaltForDevices(build, serverURL,
                      devResp.Devices \o devResp.NameMatches, args.Commands, saltPrefix)
         IN  IF r.err # ""
             THEN Return(r.err) /\ saltCalls' = saltCalls \o previews
             ELSE \E exit \in {"", "exit status"} :
                     /\ Return(exit)
                     /\ saltCalls' = Append(saltCalls \o previews,
                                          [by |-> "runSaltForDevices", argv |-> r.argv])
    ELSE Return("") /\ saltCalls' = saltCalls \o previews

\* checkForDuplicates, the show listing, runSaltForDevices.  -v is read here
\* alone: it matters to the "part" build without -s (the "cmd" build prints
\* the raw translation under -v, which formats no identifier and runs nothing)
Resolved ==
    /\ pc = "resolved"
    /\ dup' = checkForDuplicates(devResp)
    /\ IF dup'.err
       THEN Return("ambiguous devices") /\ UNCHANGED <<saltCalls, shown>>
       ELSE \E serverURL \in ServerURLs,
               verbose \in (IF build = "part" /\ ~args.Show THEN BOOLEAN ELSE {FALSE}) :
            IF build = "part" /\ (args.Show \/ verbose)
            THEN \E order \in NodeGroupOrders, panicAt \in 0..MaxNodeGroups :
                    /\ panicAt <= Len(order)
                    /\ IF panicAt > 0
                       THEN /\ Return("panic: slice bounds out of range")
                            /\ saltCalls' = saltCalls \o readNodeFile(order, panicAt)
                            /\ UNCHANGED shown
                       ELSE /\ shown' = showTranslatedDevices(devResp,
                                           getSaltPrefix(serverURL, saltPrefix))
                            /\ Dispatch(serverURL, readNodeFile(order, 0))
            ELSE /\ shown' = IF build = "cmd" /\ args.Show
                             THEN showSaltNames(serverURL,
                                      devResp.Devices \o devResp.NameMatches, saltPrefix)
                             ELSE shown
                 /\ Dispatch(serverURL, <<>>)
    /\ UNCHANGED <<build, args, api, saltPrefix, attempts, devResp, calls>>

Next ==
    \/ Main
    \/ ApiFromArgs
    \/ Password
    \/ SaveTemporaryToken
    \/ TranslateNames
    \/ Resolved

Spec == Init /\ [][Next]_vars


(***************************************************************************)
(* checkForDuplicates and the dispatch on arbitrary translator results     *)
(***************************************************************************)
MaxMatches == 3
MaxGroupMatches == 2

ManyDevices ==
    { Device(<<"g">>, <<"a">>, 3), Device(<<"h">>, <<"a">>, 42),
      Device(<<"k">>, <<"a">>, 7), Device(<<"g">>, <<"b">>, 12) }

\* the lists of at most n devices, no device twice, in any order
RECURSIVE DeviceLists(_)
DeviceLists(n) ==
    IF n = 0 THEN {<<>>}
    ELSE LET shorter == DeviceLists(n - 1)
         IN  shorter \cup
             UNION {{Append(l, d) : d \in {x \in ManyDevices :
                                             \A i \in 1..Len(l) : l[i] # x}} :
                    l \in shorter}

\* runMain right after TranslateNames returned any two lists of devices
InitDup ==
    /\ build \in Builds
    /\ args = [DeviceInfo |-> UnmarshalText(<<"a", ",", "a", ":">>),
               Commands |-> <<CommandToken(1)>>, Show |-> FALSE]
    /\ pc = "resolved"
    /\ err = ""
    /\ api = [token |-> TRUE, authenticated |-> FALSE]
    /\ saltPrefix = <<>>
    /\ attempts = 0
    /\ devResp \in [Devices : DeviceLists(MaxGroupMatches),
                    NameMatches : DeviceLists(MaxMatches)]
    /\ dup = NoDup
    /\ calls = << <<"TranslateNames", "ok">> >>
    /\ saltCalls = <<>>
    /\ shown = {}

NextDup == Resolved

SpecDup == InitDup /\ [][NextDup]_vars


(***************************************************************************)
(* procArgs: go-arg hands the DEVICEINFO text to UnmarshalText             *)
(***************************************************************************)
MaxQueryLen == 3

QueryChars == {"a", "b", ":", ",", " "}

\* the texts of at most n characters
RECURSIVE StringsUpTo(_)
StringsUpTo(n) ==
    IF n = 0 THEN {<<>>}
    ELSE LET shorter == StringsUpTo(n - 1)
         IN  shorter \cup {Append(s, c) : s \in shorter, c \in QueryChars}

\* the variables a run has not touched when runMain starts
Untouched ==
    /\ err = ""
    /\ api = NoApi
    /\ saltPrefix = <<>>
    /\ attempts = 0
    /\ devResp = NoResponse
    /\ dup = NoDup
    /\ calls = <<>>
    /\ saltCalls = <<>>
    /\ shown = {}

InitParse ==
    /\ build \in Builds
    /\ args = [DeviceInfo |-> EmptyQuery, Commands |-> <<>>, Show |-> FALSE]
    /\ pc = "procArgs"
    /\ Untouched

\* arg.MustParse on a command line that is one DEVICEINFO text: UnmarshalText
\* fills args.DeviceInfo and returns nil, and runMain goes on
procArgs ==
    /\ pc = "procArgs"
    /\ \E b \in StringsUpTo(MaxQueryLen) :
          args' = [args EXCEPT !.DeviceInfo = UnmarshalText(b)]
    /\ pc' = "main"
    /\ err' = ""
    /\ UNCHANGED <<build, api, saltPrefix, attempts, devResp, dup, calls, saltCalls, shown>>

NextParse == procArgs

SpecParse == InitParse /\ [][NextParse]_vars


(***************************************************************************)
(* The identifiers of one resolved device                                  *)
(***************************************************************************)
MaxSaltId == 42

\* the prefixes apiFromArgs can resolve: none, "test", an alias's salt-prefix
SaltPrefixes == {<<>>, testPrefix} \cup {ConfigServers[a].SaltPrefix : a \in DOMAIN ConfigServers}

\* what api.ServerURL() may be when the identifiers are formatted
FormatServerURLs == ServerURLs \cup {TestAPIHost}

\* runMain holding the translation of one device, about to format it
InitFormat ==
    /\ build \in Builds
    /\ args = [DeviceInfo |-> UnmarshalText(<<"a">>),
               Commands |-> <<CommandToken(1)>>, Show |-> TRUE]
    /\ pc = "format"
    /\ err = ""
    /\ api = [token |-> TRUE, authenticated |-> FALSE]
    /\ saltPrefix \in SaltPrefixes
    /\ attempts = 0
    /\ \E group \in {<<"g">>, <<"h">>}, name \in {<<"a">>, <<"b">>}, id \in 0..MaxSaltId :
          devResp = [Devices |-> <<>>, NameMatches |-> <<Device(group, name, id)>>]
    /\ dup = NoDup
    /\ calls = << <<"TranslateNames", "ok">> >>
    /\ saltCalls = <<>>
    /\ shown = {}

\* every identifier the build formats for the device: the one of the show
\* listing and the one of saltDeviceCommand
formatIdentifiers ==
    /\ pc = "format"
    /\ \E serverURL \in FormatServerURLs :
          LET allDevices == devResp.Devices \o devResp.NameMatches
          IN  shown' =
                IF build = "cmd"
                THEN showSaltNames(serverURL, allDevices, saltPrefix)
                     \cup {saltDeviceCommandCmd(serverURL, allDevices, saltPrefix)}
                ELSE showTranslatedDevices(devResp, getSaltPrefix(serverURL, saltPrefix))
                     \cup {saltDeviceCommand(serverURL, allDevices, saltPrefix)[i] :
                              i \in 1..Len(allDevices)}
    /\ pc' = "formatted"
    /\ UNCHANGED <<build, args, err, api, saltPrefix, attempts, devResp, dup, calls, saltCalls>>

NextFormat == formatIdentifiers

SpecFormat == InitFormat /\ [][NextFormat]_vars


(***************************************************************************)
(* apiFromArgs on every combination of the session flags                   *)
(***************************************************************************)
\* runMain about to call apiFromArgs, the session flags kept in args
InitSession ==
    /\ build \in Builds
    /\ args \in {[DeviceInfo |-> UnmarshalText(<<"a">>),
                   Commands |-> <<CommandToken(1)>>, Show |-> FALSE] @@ flags :
                     flags \in SessionFlags(build)}
    /\ pc = "api"
    /\ Untouched

\* api, saltPrefix, err := apiFromArgs(args), for any saved server-url
resolveSession ==
    /\ pc = "api"
    /\ \E configServerURL \in ConfigServerURLs :
          LET r == apiFromArgs(args, configServerURL)
          IN  IF r.err # ""
              THEN Return(r.err) /\ UNCHANGED saltPrefix
              ELSE /\ saltPrefix' = r.saltPrefix
                   /\ pc' = "session"
                   /\ err' = err
    /\ UNCHANGED <<build, args, api, attempts, devResp, dup, calls, saltCalls, shown>>

NextSession == resolveSession

SpecSession == InitSession /\ [][NextSession]_vars


(***************************************************************************)
(* Properties                                                              *)
(***************************************************************************)
\* the text holds a colon: a colon-qualified device or a group term
HasStructure(text) == \E i \in 1..Len(text) : text[i] = ":"

\* the last call to the user api was a TranslateNames that succeeded
Translated == calls # <<>> /\ calls[Len(calls)] = <<"TranslateNames", "ok">>

CallsBy(f) == SelectSeq(saltCalls, LAMBDA c : c.by = f)

AllDevices == devResp.Devices \o devResp.NameMatches

\* two entries of the list carry the same device name
SharedName(list) ==
    \E i, j \in 1..Len(list) : i < j /\ list[i].DeviceName = list[j].DeviceName

\* "pi-" prefix "-" id, or "pi-" id when there is no prefix
FormattedId(prefix, id) ==
    <<"p", "i", "-">> \o (IF prefix # <<>> THEN prefix \o <<"-">> ELSE <<>>) \o Itoa(id)

RawPassThrough ==
    << [by |-> "runMain", argv |-> <<salt, args.DeviceInfo.rawArg>>] >>

InsufficientArguments == "Commands/deviceinfo must be specified"

\* C1 (as stated): with no commands and an unstructured query text, the text
\* is forwarded as the sole argument of one salt invocation with no
\* translation; under -s salt is not invoked at all during the run.
C1_Original ==
    (pc = "done" /\ args.Commands = <<>> /\ RawQuery(args.DeviceInfo)
        /\ ~HasStructure(args.DeviceInfo.rawArg))
    => IF ~args.Show
       THEN saltCalls = RawPassThrough /\ calls = <<>>
       ELSE saltCalls = <<>>

\* C1 (amended): with no commands and a non-empty unstructured query text,
\* the text is forwarded unchanged as the sole argument of exactly one salt
\* invocation and no api call is made; under -s the text is not forwarded
\* and no command is dispatched: salt is run at most by the show listing's
\* node-group queries, after a translation that succeeded without ambiguity.
C1_PassThroughUnlessShow ==
    (args.Commands = <<>> /\ RawQuery(args.DeviceInfo)
        /\ ~HasStructure(args.DeviceInfo.rawArg))
    => IF ~args.Show
       THEN pc = "done" => (saltCalls = RawPassThrough /\ calls = <<>>)
       ELSE /\ CallsBy("runMain") = <<>>
            /\ CallsBy("runSaltForDevices") = <<>>
            /\ saltCalls # <<>> => (build = "part" /\ Translated /\ ~dup.err)

C1_Witness ==
    /\ pc = "done"
    /\ args.Commands = <<>>
    /\ ~args.Show
    /\ args.DeviceInfo.rawArg = <<" ", "a">>
    /\ saltCalls = << [by |-> "runMain", argv |-> <<salt, <<" ", "a">> >>] >>

\* C2 (as stated): a structured query with no commands fails with the
\* insufficient-arguments error, with no api call and no salt invocation.
C2_Original ==
    (pc = "done" /\ args.Commands = <<>> /\ HasStructure(args.DeviceInfo.rawArg))
    => (err = InsufficientArguments /\ calls = <<>> /\ saltCalls = <<>>)

\* C2 (amended): a run with no commands fails with the insufficient-arguments
\* error exactly when the query text is empty, and then makes no api call and
\* no salt invocation; a structured query with no commands is forwarded to
\* salt as it is, or translated under -s.
C2_InsufficientOnlyWhenEmpty ==
    (pc = "done" /\ args.Commands = <<>>)
    => /\ (err = InsufficientArguments) <=> (args.DeviceInfo.rawArg = <<>>)
       /\ args.DeviceInfo.rawArg = <<>> => (calls = <<>> /\ saltCalls = <<>>)
       /\ (HasStructure(args.DeviceInfo.rawArg) /\ ~args.Show)
             => (saltCalls = RawPassThrough /\ calls = <<>>)

C2_Witness ==
    /\ pc = "done"
    /\ args.Commands = <<>>
    /\ args.DeviceInfo.rawArg = <<>>
    /\ err = InsufficientArguments

\* C3 (as stated): with commands and an unstructured query no api call is
\* made and salt is invoked once with the commands and the raw query text.
C3_Original ==
    (pc = "done" /\ args.Commands # <<>> /\ RawQuery(args.DeviceInfo)
        /\ ~HasStructure(args.DeviceInfo.rawArg))
    => /\ calls = <<>>
       /\ Len(saltCalls) = 1
       /\ \E i \in 1..Len(saltCalls[1].argv) :
             saltCalls[1].argv[i] = args.DeviceInfo.rawArg
       /\ \A k \in 1..Len(args.Commands) :
             \E i \in 1..Len(saltCalls[1].argv) : saltCalls[1].argv[i] = args.Commands[k]

\* C3 (amended): with commands, an unstructured query still parses to device
\* names, so nothing is passed through: the run resolves the session and
\* translates, and salt is given the commands at most once, by
\* runSaltForDevices after a translation that succeeded, as the arguments
\* that follow the identifiers, unchanged.
C3_BareNamesAreTranslated ==
    (args.Commands # <<>> /\ ~HasStructure(args.DeviceInfo.rawArg))
    => /\ HasValues(args.DeviceInfo)
       /\ CallsBy("runMain") = <<>>
       /\ Len(CallsBy("runSaltForDevices")) <= 1
       /\ pc = "done" => (err # "" \/ Translated)
       /\ \A i \in 1..Len(saltCalls) :
             saltCalls[i].by = "runSaltForDevices"
             => /\ Translated
                /\ i = Len(saltCalls)
                /\ LET argv == saltCalls[i].argv
                       n == Len(args.Commands)
                   IN  /\ Len(argv) >= n + 2
                       /\ SubSeq(argv, Len(argv) - n + 1, Len(argv)) = args.Commands

C3_Witness ==
    /\ pc = "done"
    /\ err = ""
    /\ args.DeviceInfo.rawArg = <<"a">>
    /\ Len(args.Commands) = 2
    /\ Len(CallsBy("runSaltForDevices")) = 1

\* C4: every salt invocation of runSaltForDevices has the arguments "salt",
\* then "-L" iff more than one device resolved, then the space-joined
\* formatted identifiers of the resolved devices in order, then the commands.
C4_DeviceArguments ==
    \A i \in 1..Len(saltCalls) :
        saltCalls[i].by = "runSaltForDevices"
        => /\ AllDevices # <<>>
           /\ saltCalls[i].argv =
                 <<salt>>
                 \o (IF Len(AllDevices) > 1 THEN << <<"-", "L">> >> ELSE <<>>)
                 \o << Join([k \in 1..Len(AllDevices) |->
                               FormattedId(saltPrefix, AllDevices[k].SaltId)], <<" ">>) >>
                 \o args.Commands

C4_Witness ==
    /\ pc = "done"
    /\ CallsBy("runSaltForDevices") # <<>>
    /\ Len(devResp.Devices) = 1
    /\ Len(devResp.NameMatches) = 1
    /\ saltPrefix = testPrefix
    /\ Len(args.Commands) = 2

\* C5 (as stated): when some device name of the translated result is matched
\* by more than one resolved device, the run fails, no identifier is
\* formatted and salt is never invoked.
C5_Original ==
    (pc = "done" /\ Translated /\ SharedName(AllDevices))
    => (err # "" /\ shown = {} /\ saltCalls = <<>>)

\* C5 (amended): when some device name occurs more than once among the name
\* matches of the translated result, the run fails with the ambiguity error,
\* no identifier is formatted and salt is never invoked, whatever else was
\* resolved; a name shared among group matches alone is no ambiguity.
C5_AmbiguityGate ==
    (Translated /\ SharedName(devResp.NameMatches))
    => /\ shown = {}
       /\ saltCalls = <<>>
       /\ pc = "done" => err = "ambiguous devices"

C5_Witness ==
    /\ pc = "done"
    /\ err = "ambiguous devices"
    /\ Len(devResp.NameMatches) = 2
    /\ Len(devResp.Devices) = 1
    /\ args.Commands # <<>>


\* how many entries of the list carry the name
Matches(list, name) == Cardinality({i \in 1..Len(list) : list[i].DeviceName = name})

AmbiguousNames(list) ==
    {list[i].DeviceName : i \in {k \in 1..Len(list) : Matches(list, list[k].DeviceName) > 1}}

\* C6: the count of the error is the number of distinct names with more than
\* one match, and every such name is reported exactly once with all of its
\* matches.
C6_CountsAmbiguousNames ==
    pc = "done"
    => /\ dup.count = Cardinality(AmbiguousNames(devResp.NameMatches))
       /\ \A name \in AmbiguousNames(devResp.NameMatches) :
             /\ Cardinality({i \in 1..Len(dup.report) : dup.report[i].name = name}) = 1
             /\ \A i \in 1..Len(dup.report) :
                   dup.report[i].name = name
                   => dup.report[i].matches =
                         SelectSeq(devResp.NameMatches, LAMBDA d : d.DeviceName = name)

\* C7 (as stated): checkForDuplicates fails iff two of all the devices the
\* translator returned, group matches and name matches together, share a name.
C7_Original ==
    pc = "done" => (dup.err <=> SharedName(AllDevices))

\* C7 (amended): checkForDuplicates groups the name matches by device name: it
\* fails, and the run with it, iff two of the name matches share a name; the
\* group matches are not looked at, although they are dispatched too.
C7_GroupsNameMatches ==
    pc = "done"
    => /\ dup.err <=> SharedName(devResp.NameMatches)
       /\ dup.err <=> (err = "ambiguous devices")

C7_Witness ==
    /\ pc = "done"
    /\ ~dup.err
    /\ SharedName(devResp.Devices)
    /\ Len(devResp.NameMatches) = 2
    /\ CallsBy("runSaltForDevices") # <<>>

TranslationFailed(i, failure) == calls[i] = <<"TranslateNames", failure>>

FirstTranslation(i) == i \in Translations /\ \A k \in Translations : i <= k

TokenSavedAfter(i) ==
    \E k \in (i + 1)..Len(calls) : calls[k] = <<"SaveTemporaryToken", "ok">>

\* C8: TranslateNames is called at most twice; the second call is made iff
\* the first failed with an authentication error and authenticateUser then
\* succeeded; any other error of the first call ends the run at once.
C8_RetryOnceAfterAuthentication ==
    /\ Cardinality(Translations) <= 2
    /\ \A i \in Translations :
          IF FirstTranslation(i)
          THEN /\ TranslationFailed(i, "error")
                  => (i = Len(calls) /\ pc = "done" /\ err = "api error")
               /\ (TranslationFailed(i, "authentication error") /\ TokenSavedAfter(i))
                  => (pc = "translate" \/ Cardinality(Translations) = 2)
               /\ calls[i][2] = "ok" => Cardinality(Translations) = 1
          ELSE /\ calls[i - 1] = <<"SaveTemporaryToken", "ok">>
               /\ \E k \in Translations :
                     k < i /\ TranslationFailed(k, "authentication error")

C8_Witness ==
    /\ pc = "done"
    /\ Cardinality(Translations) = 2
    /\ \E k \in 1..Len(calls) : calls[k] = <<"Authenticate", "ok">>
    /\ TranslationFailed(1, "authentication error")
    /\ Translated

\* C9: when both translations fail with an authentication error, or the
\* authentication between them fails, the run returns an error and salt is
\* never invoked.
C9_AuthenticationFailuresAbort ==
    ( \/ /\ Cardinality(Translations) = 2
         /\ \A i \in Translations : TranslationFailed(i, "authentication error")
      \/ /\ Cardinality(Translations) = 1
         /\ \A i \in Translations : TranslationFailed(i, "authentication error")
         /\ pc = "done" )
    => (pc = "done" /\ err # "" /\ saltCalls = <<>> /\ shown = {})

C9_Witness ==
    /\ pc = "done"
    /\ Cardinality(Translations) = 2
    /\ \A i \in Translations : TranslationFailed(i, "authentication error")

\* the password prompts of the cycle that starts at entry r of the calls
CycleOf(r) ==
    {k \in (r + 1)..Len(calls) :
        \A j \in (r + 1)..k : calls[j][1] \in {"GetPasswd", "Authenticate"}}

\* C10: a cycle of requestAuthentication submits at most 3 passwords; the
\* third rejected one ends the run with "Max Password Attempts", an accepted
\* one ends the prompting, and any other error of Authenticate ends the run.
C10_ThreePasswords ==
    \A r \in 1..Len(calls) :
        calls[r][1] = "requestAuthentication"
        => LET submitted == {k \in CycleOf(r) : calls[k][1] = "Authenticate"}
           IN  /\ Cardinality(submitted) <= 3
               /\ \A k \in submitted :
                     LET nth == Cardinality({j \in submitted : j <= k})
                     IN  /\ calls[k][2] = "ok" => k = Len(calls) \/ k + 1 \notin CycleOf(r)
                         /\ calls[k][2] = "error"
                            => (k = Len(calls) /\ pc = "done" /\ err = "api error")
                         /\ (calls[k][2] = "authentication error" /\ nth = 3)
                            => (k = Len(calls) /\ pc = "done"
                                /\ err = "Max Password Attempts")
                         /\ (calls[k][2] = "authentication error" /\ nth < 3
                               /\ k = Len(calls))
                            => pc = "password"

C10_Witness ==
    /\ pc = "done"
    /\ err = "Max Password Attempts"
    /\ Cardinality({k \in 1..Len(calls) : calls[k][1] = "Authenticate"}) = 3

\* the terms of the query text, as the contract cuts them
QueryTerms == Split(TrimSpace(args.DeviceInfo.rawArg), ",")

\* the 1-based place of the first colon of the term, 0 when it has none
FirstColon(term) ==
    IF \E i \in 1..Len(term) : term[i] = ":"
    THEN CHOOSE i \in 1..Len(term) :
            term[i] = ":" /\ \A j \in 1..(i - 1) : term[j] # ":"
    ELSE 0

\* first colon at a non-zero position and last character of the term
IsGroupReference(term) == FirstColon(term) > 1 /\ FirstColon(term) = Len(term)

Before(term) == SubSeq(term, 1, FirstColon(term) - 1)
After(term) == SubSeq(term, FirstColon(term) + 1, Len(term))

C12_EmptyTermsIgnored ==
    pc = "main"
    => LET devQ == args.DeviceInfo
           given == SelectSeq(QueryTerms, LAMBDA t : t # <<>>)
       IN  /\ \A i \in 1..Len(devQ.devices) : devQ.devices[i].DeviceName # <<>>
           /\ Len(devQ.devices) + Len(devQ.groups) = Len(given)

\* the number the decimal digits spell
RECURSIVE DecimalValue(_)
DecimalValue(digits) ==
    IF digits = <<>> THEN 0
    ELSE 10 * DecimalValue(SubSeq(digits, 1, Len(digits) - 1))
         + (CHOOSE k \in 0..9 : Digits[k + 1] = digits[Len(digits)])

\* text is the decimal numeral of n, with no sign and no leading zero
IsNumeralOf(text, n) ==
    /\ text # <<>>
    /\ \A i \in 1..Len(text) : \E k \in 1..10 : Digits[k] = text[i]
    /\ Len(text) > 1 => text[1] # "0"
    /\ DecimalValue(text) = n

\* C13: the identifier of a device is "pi-" p "-" n for a non-empty prefix p
\* and "pi-" n for the empty prefix, n the decimal numeral of the device's
\* id, whatever the server URL, the group and the name of the device
\* (id 42 with prefix "test": "pi-test-42"; id 3 with no prefix: "pi-3").
C13_IdentifierFormat ==
    pc = "formatted"
    => LET id == devResp.NameMatches[1].SaltId
           lead == IF saltPrefix # <<>>
                   THEN <<"p", "i", "-">> \o saltPrefix \o <<"-">>
                   ELSE <<"p", "i", "-">>
       IN  /\ Cardinality(shown) = 1
           /\ \A text \in shown :
                 /\ Len(text) > Len(lead)
                 /\ SubSeq(text, 1, Len(lead)) = lead
                 /\ IsNumeralOf(SubSeq(text, Len(lead) + 1, Len(text)), id)
           /\ (id = 42 /\ saltPrefix = testPrefix)
              => shown = {<<"p", "i", "-", "t", "e", "s", "t", "-", "4", "2">>}
           /\ (id = 3 /\ saltPrefix = <<>>) => shown = {<<"p", "i", "-", "3">>}

C13_Witness ==
    /\ pc = "formatted"
    /\ devResp.NameMatches = <<Device(<<"h">>, <<"b">>, 42)>>
    /\ saltPrefix = testPrefix
    /\ shown = {<<"p", "i", "-", "t", "e", "s", "t", "-", "4", "2">>}

NoValidDevices == "No valid devices found"
SlicePanic == "panic: slice bounds out of range"

\* the run is over, its translation succeeded and resolved no device at all
ResolvedNothing == pc = "done" /\ Translated /\ AllDevices = <<>>

\* C14 (as stated): when the translation of a structured query succeeds and
\* resolves no device, the run fails with "No valid devices found" and salt
\* is not invoked, with or without commands.
C14_Original ==
    (ResolvedNothing /\ HasStructure(args.DeviceInfo.rawArg))
    => (err = NoValidDevices /\ saltCalls = <<>>)

\* C14 (amended): when the translation succeeds and resolves no device, no
\* command is dispatched: salt is run at most by the node-group queries of
\* the show listing (-s or -v of the build that has them), before the
\* error.  With commands the run fails with "No valid devices found", unless
\* that listing panicked first; without commands (a show-only run) the run
\* prints the empty listing and returns no error.
C14_NothingResolvedNothingDispatched ==
    ResolvedNothing
    => /\ CallsBy("runSaltForDevices") = <<>>
       /\ CallsBy("runMain") = <<>>
       /\ saltCalls # <<>> => build = "part"
       /\ err # SlicePanic
          => IF args.Commands # <<>> THEN err = NoValidDevices ELSE err = ""
       /\ err = SlicePanic => (build = "part" /\ saltCalls # <<>>)
       /\ args.Commands = <<>> => args.Show
       /\ (build = "cmd" /\ args.Commands # <<>>)
          => (err = NoValidDevices /\ saltCalls = <<>>)

C14_Witness ==
    /\ ResolvedNothing
    /\ HasStructure(args.DeviceInfo.rawArg)
    /\ args.Commands # <<>>
    /\ err = NoValidDevices
    /\ build = "part"
    /\ saltCalls # <<>>

\* the prefix the environment flags give: --prod (--live) before --test
\* before --server; none by default
EnvironmentPrefix ==
    IF args.ProdServer THEN <<>>
    ELSE IF args.TestServer THEN <<"t", "e", "s", "t">>
    ELSE IF args.Server # "" THEN ConfigServers[args.Server].SaltPrefix
    ELSE <<>>

\* C15: the prefix apiFromArgs returns is empty under --no-prefix, otherwise
\* "test" under -t, and only otherwise the one of the environment: "test"
\* for --test, the alias's salt-prefix for --server, empty for production
\* and by default; apiFromArgs fails only for an alias that is not configured.
C15_PrefixFlagsOverride ==
    /\ pc = "session"
       => /\ err = ""
          /\ saltPrefix = IF args.NoPrefix THEN <<>>
                          ELSE IF args.TestPrefix THEN <<"t", "e", "s", "t">>
                          ELSE EnvironmentPrefix
    /\ pc = "done"
       => /\ err = "Cannot find server info in config"
          /\ ~args.ProdServer /\ ~args.TestServer
          /\ args.Server \notin DOMAIN ConfigServers \cup {""}

C15_Witness ==
    /\ pc = "session"
    /\ build = "part"
    /\ args.NoPrefix /\ args.TestPrefix
    /\ ~args.ProdServer /\ ~args.TestServer /\ args.Server = "alpha"
    /\ saltPrefix = <<>>

=============================================================================
